---- MODULE Spec2Model ----
(***************************************************************************)
(* JustPlay League Manager (src/main.py, src/schemas.py): the in-memory    *)
(* store MOCK_LEAGUES / MOCK_MATCHES and the handlers that read and write   *)
(* team rosters, schedules, results and standings.                         *)
(*                                                                         *)
(* Abstractions:                                                           *)
(*  - _gen_id draws 8 random characters out of 36; the model hands out the  *)
(*    next unused number per prefix, i.e. identities never collide.         *)
(*  - datetimes are whole days (integers); timedelta(days=d) is +d.         *)
(*  - Optional[int] is <<>> (None) or <<v>>.                                *)
(*  - fields no handler below reads (names, avatars, players, members,     *)
(*    court) are left out of the records.                                  *)
(***************************************************************************)
EXTENDS Integers, Sequences, FiniteSets, TLC

\* ---------------------------------------------------------------- bounds
MaxIds      == 5   \* Spec: identities _gen_id hands out to leagues, teams and matches
MaxRoster   == 4   \* SpecEngine: largest roster the league starts with
MaxSchedule == 2   \* SpecEngine, SpecConc: match identities _gen_id hands out

\* ------------------------------------------------------ program constants
DefaultDaysBetween == 7   \* GenerateScheduleRequest.days_between
DefaultStartDelay  == 1   \* timedelta(days=1) added to utcnow()

\* ---------------------------------------------------------------- inputs
None      == <<>>
Some(v)   == <<v>>
IsNone(o) == o = <<>>
Val(o)    == o[1]

RoundInputs == {-1, 0, 1, 2}
ScoreInputs == {-1, 0, 1}
StartInputs == {None, Some(0)}
Clock       == {10}
DayInputs   == {DefaultDaysBetween}

VARIABLES
    MOCK_LEAGUES,   \* league_id -> League; league ids are 1..Len, in creation order
    MOCK_MATCHES,   \* league_id -> List[Match]
    teamIds,        \* number of _gen_id("team") identities handed out
    matchIds,       \* number of _gen_id("match") identities handed out
    budget,         \* number of identities _gen_id may still hand out
    resp,           \* the last handler's response: [op, league, status, body]
    pc,             \* per worker thread: position inside its handler
    req,            \* per worker thread: the request it serves
    snap            \* per worker thread: the value its handler read from the store

vars == <<MOCK_LEAGUES, MOCK_MATCHES, teamIds, matchIds, budget, resp, pc, req, snap>>
store == <<MOCK_LEAGUES, MOCK_MATCHES, teamIds, matchIds, budget>>
threads == <<pc, req, snap>>

\* ------------------------------------------------------------- schemas
Team(id) == [id |-> id]

League(teams) == [teams |-> teams]

Match(id, league_id, round, home, away, when) ==
    [id |-> id, league_id |-> league_id, round |-> round,
     home_team_id |-> home, away_team_id |-> away, scheduled_at |-> when,
     home_score |-> None, away_score |-> None]

Standing(team_id) ==
    [team_id |-> team_id, played |-> 0, wins |-> 0, losses |-> 0,
     points_for |-> 0, points_against |-> 0]

\* What a handler answers: the HTTP status and, on success, the body.
Response(op, league, status, body) ==
    [op |-> op, league |-> league, status |-> status, body |-> body]

\* The request inputs that name a league, a team or a match: every identity
\* handed out so far, and one (0) that never is.
LeagueIds == 0..Len(MOCK_LEAGUES)
TeamIds   == 0..teamIds
MatchIds  == 0..matchIds

LeagueExists(l) == l \in DOMAIN MOCK_LEAGUES

\* MOCK_MATCHES.get(league_id, [])
MatchesOf(l) == IF l \in DOMAIN MOCK_MATCHES THEN MOCK_MATCHES[l] ELSE <<>>

\* ------------------------------------------------------------- leagues
create_league ==
    /\ budget > 0
    /\ budget' = budget - 1
    /\ MOCK_LEAGUES' = Append(MOCK_LEAGUES, League(<<>>))
    /\ MOCK_MATCHES' = Append(MOCK_MATCHES, <<>>)
    /\ resp' = Response("create_league", Len(MOCK_LEAGUES) + 1, 200, <<>>)
    /\ UNCHANGED <<teamIds, matchIds, threads>>

\* --------------------------------------------------------------- teams
SelectTeams(teams, team_id) == SelectSeq(teams, LAMBDA t : t.id # team_id)

add_team(l) ==
    IF ~LeagueExists(l)
    THEN /\ resp' = Response("add_team", l, 404, <<>>)
         /\ UNCHANGED <<store, threads>>
    ELSE /\ budget > 0
         /\ budget' = budget - 1
         /\ teamIds' = teamIds + 1
         /\ MOCK_LEAGUES' = [MOCK_LEAGUES EXCEPT
                ![l].teams = Append(@, Team(teamIds + 1))]
         /\ resp' = Response("add_team", l, 200, MOCK_LEAGUES'[l].teams)
         /\ UNCHANGED <<MOCK_MATCHES, matchIds, threads>>

remove_team(l, team_id) ==
    IF ~LeagueExists(l)
    THEN /\ resp' = Response("remove_team", l, 404, <<>>)
         /\ UNCHANGED <<store, threads>>
    ELSE /\ MOCK_LEAGUES' = [MOCK_LEAGUES EXCEPT
                ![l].teams = SelectTeams(@, team_id)]
         /\ resp' = Response("remove_team", l, 200, MOCK_LEAGUES'[l].teams)
         /\ UNCHANGED <<MOCK_MATCHES, teamIds, matchIds, budget, threads>>

\* ---------------------------------------------------- schedule generation
\* Mutant of NotEnoughTeams: the guard lets a roster of one team through.
NotEnoughTeams_OffByOne(teams) == Len(teams) < 1

NotEnoughTeams(teams) == Len(teams) < 2

\* payload.start_at or datetime.utcnow() + timedelta(days=1)
StartTime(start_at, now) ==
    IF IsNone(start_at) THEN now + DefaultStartDelay ELSE Val(start_at)

\* The two nested loops of generate_schedule: r is the round being produced,
\* i the 0-based roster position of the home team, acc the matches so far.
\* The (k+1)-th match produced takes the (k+1)-th identity after firstId.
RECURSIVE ScheduleLoop(_, _, _, _, _, _, _, _, _)
ScheduleLoop(teams, rounds, days, league_id, firstId, r, i, when, acc) ==
    IF r > rounds THEN acc
    ELSE IF i >= Len(teams)
    THEN ScheduleLoop(teams, rounds, days, league_id, firstId, r + 1, 0, when, acc)
    ELSE IF i + 1 < Len(teams)
    THEN ScheduleLoop(teams, rounds, days, league_id, firstId, r, i + 2, when + days,
            Append(acc, Match(firstId + Len(acc) + 1, league_id, r,
                              teams[i + 1].id, teams[i + 2].id, when)))
    ELSE ScheduleLoop(teams, rounds, days, league_id, firstId, r, i + 2, when, acc)

\* Mutant of ScheduledMatches: `when = when + timedelta(...)` one level out,
\* so the bye of an odd roster also advances the clock.
RECURSIVE ScheduleLoop_ByeGap(_, _, _, _, _, _, _, _, _)
ScheduleLoop_ByeGap(teams, rounds, days, league_id, firstId, r, i, when, acc) ==
    IF r > rounds THEN acc
    ELSE IF i >= Len(teams)
    THEN ScheduleLoop_ByeGap(teams, rounds, days, league_id, firstId, r + 1, 0, when, acc)
    ELSE IF i + 1 < Len(teams)
    THEN ScheduleLoop_ByeGap(teams, rounds, days, league_id, firstId, r, i + 2,
            when + days,
            Append(acc, Match(firstId + Len(acc) + 1, league_id, r,
                              teams[i + 1].id, teams[i + 2].id, when)))
    ELSE ScheduleLoop_ByeGap(teams, rounds, days, league_id, firstId, r, i + 2,
            when + days, acc)

ScheduledMatches_ByeGap(teams, rounds, start_time, days, league_id, firstId) ==
    ScheduleLoop_ByeGap(teams, rounds, days, league_id, firstId, 1, 0, start_time, <<>>)

ScheduledMatches(teams, rounds, start_time, days, league_id, firstId) ==
    ScheduleLoop(teams, rounds, days, league_id, firstId, 1, 0, start_time, <<>>)

\* Mutant of generate_schedule: the new matches are added to the stored list
\* instead of replacing it.
generate_schedule_Additive(l, rounds, start_at, days, now) ==
    IF ~LeagueExists(l)
    THEN /\ resp' = Response("generate_schedule", l, 404, <<>>)
         /\ UNCHANGED <<store, threads>>
    ELSE IF NotEnoughTeams(MOCK_LEAGUES[l].teams)
    THEN /\ resp' = Response("generate_schedule", l, 400, <<>>)
         /\ UNCHANGED <<store, threads>>
    ELSE LET matches == ScheduledMatches(MOCK_LEAGUES[l].teams, rounds,
                            StartTime(start_at, now), days, l, matchIds)
         IN /\ Len(matches) <= budget
            /\ budget' = budget - Len(matches)
            /\ matchIds' = matchIds + Len(matches)
            /\ MOCK_MATCHES' = [MOCK_MATCHES EXCEPT ![l] = @ \o matches]
            /\ resp' = Response("generate_schedule", l, 200, matches)
            /\ UNCHANGED <<MOCK_LEAGUES, teamIds, threads>>

generate_schedule(l, rounds, start_at, days, now) ==
    IF ~LeagueExists(l)
    THEN /\ resp' = Response("generate_schedule", l, 404, <<>>)
         /\ UNCHANGED <<store, threads>>
    ELSE IF NotEnoughTeams(MOCK_LEAGUES[l].teams)
    THEN /\ resp' = Response("generate_schedule", l, 400, <<>>)
         /\ UNCHANGED <<store, threads>>
    ELSE LET matches == ScheduledMatches(MOCK_LEAGUES[l].teams, rounds,
                            StartTime(start_at, now), days, l, matchIds)
         IN /\ Len(matches) <= budget
            /\ budget' = budget - Len(matches)
            /\ matchIds' = matchIds + Len(matches)
            /\ MOCK_MATCHES' = [MOCK_MATCHES EXCEPT ![l] = matches]
            /\ resp' = Response("generate_schedule", l, 200, matches)
            /\ UNCHANGED <<MOCK_LEAGUES, teamIds, threads>>

\* --------------------------------------------------------------- results
\* Mutant of Found: `found` starts True, so the 404 is never raised on a
\* league that has matches.
Found_AnyMatch(matches, match_id) == matches # <<>>

Found(matches, match_id) == \E i \in DOMAIN matches : matches[i].id = match_id

UpdatedList(matches, match_id, home_score, away_score) ==
    [i \in DOMAIN matches |->
        IF matches[i].id = match_id
        THEN [matches[i] EXCEPT !.home_score = Some(home_score),
                                !.away_score = Some(away_score)]
        ELSE matches[i]]

update_result(l, match_id, home_score, away_score) ==
    IF ~Found(MatchesOf(l), match_id)
    THEN /\ resp' = Response("update_result", l, 404, <<>>)
         /\ UNCHANGED <<store, threads>>
    ELSE /\ MOCK_MATCHES' = [MOCK_MATCHES EXCEPT
                ![l] = UpdatedList(MatchesOf(l), match_id, home_score, away_score)]
         /\ resp' = Response("update_result", l, 200, MOCK_MATCHES'[l])
         /\ UNCHANGED <<MOCK_LEAGUES, teamIds, matchIds, budget, threads>>

\* ------------------------------------------------------------- standings
\* stats: the dict keyed by team id, as the sequence of its values in
\* insertion order (the roster's order).
InitStats(teams) == [i \in DOMAIN teams |-> Standing(teams[i].id)]

\* stats[team_id]: the position of the entry, 0 for a KeyError.
Lookup(stats, team_id) ==
    IF \E i \in DOMAIN stats : stats[i].team_id = team_id
    THEN CHOOSE i \in DOMAIN stats : stats[i].team_id = team_id
    ELSE 0

Played(m) == ~IsNone(m.home_score) /\ ~IsNone(m.away_score)

\* Mutant of Tally: `>=` for `>` in the home side's comparison, so a draw is
\* a home win and an away loss.
Tally_DrawIsHomeWin(stats, m) ==
    LET hs == Val(m.home_score)
        as == Val(m.away_score)
        h  == Lookup(stats, m.home_team_id)
        s1 == [stats EXCEPT
                 ![h].played = @ + 1,
                 ![h].points_for = @ + hs,
                 ![h].points_against = @ + as,
                 ![h].wins = IF hs >= as THEN @ + 1 ELSE @,
                 ![h].losses = IF as > hs THEN @ + 1 ELSE @]
        a  == Lookup(s1, m.away_team_id)
    IN [s1 EXCEPT
          ![a].played = @ + 1,
          ![a].points_for = @ + as,
          ![a].points_against = @ + hs,
          ![a].wins = IF as > hs THEN @ + 1 ELSE @,
          ![a].losses = IF hs >= as THEN @ + 1 ELSE @]

\* One pass of the loop body over a played match m, both rows present.
Tally(stats, m) ==
    LET hs == Val(m.home_score)
        as == Val(m.away_score)
        h  == Lookup(stats, m.home_team_id)
        s1 == [stats EXCEPT
                 ![h].played = @ + 1,
                 ![h].points_for = @ + hs,
                 ![h].points_against = @ + as,
                 ![h].wins = IF hs > as THEN @ + 1 ELSE @,
                 ![h].losses = IF as > hs THEN @ + 1 ELSE @]
        a  == Lookup(s1, m.away_team_id)
    IN [s1 EXCEPT
          ![a].played = @ + 1,
          ![a].points_for = @ + as,
          ![a].points_against = @ + hs,
          ![a].wins = IF as > hs THEN @ + 1 ELSE @,
          ![a].losses = IF hs > as THEN @ + 1 ELSE @]

MissingTeam(stats, m) ==
    Lookup(stats, m.home_team_id) = 0 \/ Lookup(stats, m.away_team_id) = 0

\* The loop over the matches from position i on: the stats, or a KeyError.
RECURSIVE Accumulate(_, _, _)
Accumulate(stats, matches, i) ==
    IF i > Len(matches) THEN [ok |-> TRUE, stats |-> stats]
    ELSE IF ~Played(matches[i]) THEN Accumulate(stats, matches, i + 1)
    ELSE IF MissingTeam(stats, matches[i]) THEN [ok |-> FALSE, stats |-> <<>>]
    ELSE Accumulate(Tally(stats, matches[i]), matches, i + 1)

Diff(s) == s.points_for - s.points_against

\* (a.wins, diff(a)) < (b.wins, diff(b)), as Python compares the key tuples
KeyLess(a, b) == a.wins < b.wins \/ (a.wins = b.wins /\ Diff(a) < Diff(b))

\* Mutant of Insert: an unstable sort, a row lands in front of the rows of
\* equal key.
Insert_TiesFirst(table, row) ==
    LET before == {i \in DOMAIN table : KeyLess(row, table[i])}
        n == IF before = {} THEN 0
             ELSE CHOOSE i \in before : \A j \in before : j <= i
    IN SubSeq(table, 1, n) \o <<row>> \o SubSeq(table, n + 1, Len(table))

\* row put behind every entry of the sorted table whose key is not smaller
Insert(table, row) ==
    LET before == {i \in DOMAIN table : ~KeyLess(table[i], row)}
        n == IF before = {} THEN 0
             ELSE CHOOSE i \in before : \A j \in before : j <= i
    IN SubSeq(table, 1, n) \o <<row>> \o SubSeq(table, n + 1, Len(table))

\* sorted(rows, key=..., reverse=True): stable, rows of equal key keep their order
RECURSIVE SortedDesc(_, _, _)
SortedDesc(rows, i, table) ==
    IF i > Len(rows) THEN table
    ELSE SortedDesc(rows, i + 1, Insert(table, rows[i]))

Table(stats) == SortedDesc(stats, 1, <<>>)

\* The body of standings past the league lookup, over the roster and the
\* match list read from the store: the table, or the 500 of the KeyError
\* nothing catches.
Computed(league_id, teams, matches) ==
    LET acc == Accumulate(InitStats(teams), matches, 1)
    IN IF acc.ok THEN Response("standings", league_id, 200, Table(acc.stats))
       ELSE Response("standings", league_id, 500, <<>>)

\* What GET .../standings answers in the current store.
StandingsResponse(l) ==
    IF ~LeagueExists(l) THEN Response("standings", l, 404, <<>>)
    ELSE Computed(l, MOCK_LEAGUES[l].teams, MatchesOf(l))

standings(l) ==
    /\ resp' = StandingsResponse(l)
    /\ UNCHANGED <<store, threads>>

Init ==
    /\ MOCK_LEAGUES = <<>>
    /\ MOCK_MATCHES = <<>>
    /\ teamIds = 0
    /\ matchIds = 0
    /\ budget = MaxIds
    /\ resp = Response("start", 0, 200, <<>>)
    /\ pc = <<"idle", "idle">>
    /\ req = <<None, None>>
    /\ snap = <<None, None>>

Next ==
    \/ create_league
    \/ \E l \in LeagueIds : add_team(l)
    \/ \E l \in LeagueIds, t \in TeamIds : remove_team(l, t)
    \/ \E l \in LeagueIds, r \in RoundInputs, s \in StartInputs,
          d \in DayInputs, now \in Clock : generate_schedule(l, r, s, d, now)
    \/ \E l \in LeagueIds, m \in MatchIds, hs \in ScoreInputs, as \in ScoreInputs :
          update_result(l, m, hs, as)
    \/ \E l \in LeagueIds : standings(l)

Spec == Init /\ [][Next]_vars

\* ------------------------------------------------ the engine on one league
\* The store after create_league and n add_team calls, for a roster size n in
\* 2..MaxRoster: the roster and match list the generator and the calculator
\* are handed.
InitEngine ==
    \E n \in 2..MaxRoster :
        /\ MOCK_LEAGUES = <<League([i \in 1..n |-> Team(i)])>>
        /\ MOCK_MATCHES = << <<>> >>
        /\ teamIds = n
        /\ matchIds = 0
        /\ budget = MaxSchedule
        /\ resp = Response("add_team", 1, 200, [i \in 1..n |-> Team(i)])
        /\ pc = <<"idle", "idle">>
        /\ req = <<None, None>>
        /\ snap = <<None, None>>

NextEngine ==
    \/ \E l \in DOMAIN MOCK_LEAGUES, r \in RoundInputs, s \in StartInputs,
          d \in DayInputs, now \in Clock : generate_schedule(l, r, s, d, now)
    \/ \E l \in DOMAIN MOCK_LEAGUES, m \in MatchIds, hs \in ScoreInputs,
          as \in ScoreInputs : update_result(l, m, hs, as)
    \/ \E l \in DOMAIN MOCK_LEAGUES : standings(l)

SpecEngine == InitEngine /\ [][NextEngine]_vars

\* ------------------------------------------- two requests served at once
\* The handlers are plain `def`s, which FastAPI runs on worker threads with no
\* lock around the store. Each writer is split where another thread can run
\* between its read of the store and its write: update_result reads the match
\* list (line 280) and stores the rebuilt list (line 295); generate_schedule
\* reads the league (lines 233-237) and stores the new list (line 263).
Threads == {1, 2}

UpdateRequest(l, match_id, home_score, away_score) ==
    [op |-> "update_result", league |-> l, match_id |-> match_id,
     home_score |-> home_score, away_score |-> away_score,
     status |-> 0, body |-> <<>>]

GenerateRequest(l, rounds, start_time, days) ==
    [op |-> "generate_schedule", league |-> l, rounds |-> rounds,
     start_time |-> start_time, days |-> days, status |-> 0, body |-> <<>>]

\* the thread's handler returns: its response is recorded with its request
Return(t, status, body) ==
    /\ pc' = [pc EXCEPT ![t] = "done"]
    /\ req' = [req EXCEPT ![t].status = status, ![t].body = body]
    /\ resp' = Response(req[t].op, req[t].league, status, body)

\* matches = MOCK_MATCHES.get(league_id, [])
ur_read(t, l, match_id, home_score, away_score) ==
    /\ pc[t] = "idle"
    /\ pc' = [pc EXCEPT ![t] = "ur_store"]
    /\ req' = [req EXCEPT ![t] = UpdateRequest(l, match_id, home_score, away_score)]
    /\ snap' = [snap EXCEPT ![t] = MatchesOf(l)]
    /\ UNCHANGED <<store, resp>>

\* the loop over the list read, then the 404 or the store of the rebuilt list
ur_store(t) ==
    /\ pc[t] = "ur_store"
    /\ IF ~Found(snap[t], req[t].match_id)
       THEN /\ Return(t, 404, <<>>)
            /\ UNCHANGED <<store, snap>>
       ELSE LET updated_list == UpdatedList(snap[t], req[t].match_id,
                                    req[t].home_score, req[t].away_score)
            IN /\ MOCK_MATCHES' = [MOCK_MATCHES EXCEPT ![req[t].league] = updated_list]
               /\ Return(t, 200, updated_list)
               /\ UNCHANGED <<MOCK_LEAGUES, teamIds, matchIds, budget, snap>>

\* league = MOCK_LEAGUES.get(league_id); teams = league.teams; the two rejections
gs_read(t, l, rounds, start_at, days, now) ==
    /\ pc[t] = "idle"
    /\ LET request == GenerateRequest(l, rounds, StartTime(start_at, now), days)
           rejected(status) ==
               /\ pc' = [pc EXCEPT ![t] = "done"]
               /\ req' = [req EXCEPT ![t] = [request EXCEPT !.status = status]]
               /\ resp' = Response("generate_schedule", l, status, <<>>)
               /\ UNCHANGED <<store, snap>>
       IN IF ~LeagueExists(l) THEN rejected(404)
          ELSE IF NotEnoughTeams(MOCK_LEAGUES[l].teams) THEN rejected(400)
          ELSE /\ pc' = [pc EXCEPT ![t] = "gs_store"]
               /\ req' = [req EXCEPT ![t] = request]
               /\ snap' = [snap EXCEPT ![t] = MOCK_LEAGUES[l].teams]
               /\ UNCHANGED <<store, resp>>

\* the loops over the roster read, then MOCK_MATCHES[league_id] = matches
gs_store(t) ==
    /\ pc[t] = "gs_store"
    /\ LET matches == ScheduledMatches(snap[t], req[t].rounds,
                           req[t].start_time, req[t].days,
                           req[t].league, matchIds)
       IN /\ Len(matches) <= budget
          /\ budget' = budget - Len(matches)
          /\ matchIds' = matchIds + Len(matches)
          /\ MOCK_MATCHES' = [MOCK_MATCHES EXCEPT ![req[t].league] = matches]
          /\ Return(t, 200, matches)
          /\ UNCHANGED <<MOCK_LEAGUES, teamIds, snap>>

\* The store after create_league, two add_team calls and a generate_schedule
\* of two rounds starting at day 0: two matches, none played.
InitConc ==
    /\ MOCK_LEAGUES = <<League(<<Team(1), Team(2)>>)>>
    /\ MOCK_MATCHES = <<ScheduledMatches(<<Team(1), Team(2)>>, 2, 0,
                            DefaultDaysBetween, 1, 0)>>
    /\ teamIds = 2
    /\ matchIds = 2
    /\ budget = MaxSchedule
    /\ resp = Response("generate_schedule", 1, 200, MOCK_MATCHES[1])
    /\ pc = <<"idle", "idle">>
    /\ req = <<None, None>>
    /\ snap = <<None, None>>

\* The racing requests carry scores the schema of the spec accepts.
ValidScores == {x \in ScoreInputs : x >= 0}

NextConc ==
    \/ \E t \in Threads, l \in LeagueIds, m \in MatchIds, hs \in ValidScores,
          as \in ValidScores : ur_read(t, l, m, hs, as)
    \/ \E t \in Threads : ur_store(t)
    \/ \E t \in Threads, l \in LeagueIds, r \in RoundInputs, s \in StartInputs,
          d \in DayInputs, now \in Clock : gs_read(t, l, r, s, d, now)
    \/ \E t \in Threads : gs_store(t)

SpecConc == InitConc /\ [][NextConc]_vars

\* ================================================================ claims
IdsOf(matches) == {matches[i].id : i \in DOMAIN matches}

RosterIds(l) == {MOCK_LEAGUES[l].teams[i].id : i \in DOMAIN MOCK_LEAGUES[l].teams}

SomePlayed(matches) == \E i \in DOMAIN matches : Played(matches[i])

\* C1: whatever add_team, remove_team, generate_schedule and update_result
\* calls came before, a standings query on an existing league answers with a
\* table (200): it never fails on a played match whose team left the roster.
C1_StandingsNeverCrashes ==
    (resp.op = "standings" /\ LeagueExists(resp.league)) => resp.status = 200

\* C2: every stored match has both scores unset, or both set and non-negative.
C2_ScoresUnsetOrNonNegative ==
    \A l \in DOMAIN MOCK_MATCHES : \A i \in DOMAIN MOCK_MATCHES[l] :
        LET m == MOCK_MATCHES[l][i]
        IN \/ IsNone(m.home_score) /\ IsNone(m.away_score)
           \/ /\ ~IsNone(m.home_score) /\ ~IsNone(m.away_score)
              /\ Val(m.home_score) >= 0 /\ Val(m.away_score) >= 0

\* C3: a generate_schedule step on a league whose roster has fewer than two
\* teams answers 400 (not enough teams) and leaves every stored match list,
\* recorded scores included, as it was.
C3_TooFewTeamsRejected ==
    [][(/\ resp'.op = "generate_schedule"
        /\ LeagueExists(resp'.league)
        /\ Len(MOCK_LEAGUES[resp'.league].teams) < 2)
       => (resp'.status = 400 /\ MOCK_MATCHES' = MOCK_MATCHES)]_vars

\* C3 witness: the 400 was answered on a league that holds a schedule with a
\* recorded result.
C3_Witness ==
    /\ resp.op = "generate_schedule" /\ resp.status = 400
    /\ SomePlayed(MOCK_MATCHES[resp.league])

\* C4: an update_result step whose match_id is the identity of no match in
\* the league's list answers 404 and leaves every league's match list as it
\* was. (A step that answers for league l is a call on league l, so the calls
\* to look at are those on resp'.league.)
C4_UnknownMatchRejected ==
    [][resp'.op = "update_result" =>
        \/ resp'.status = 404 /\ MOCK_MATCHES' = MOCK_MATCHES
        \/ \A m \in MatchIds \ IdsOf(MatchesOf(resp'.league)) :
              \A hs \in ScoreInputs, as \in ScoreInputs :
                ~update_result(resp'.league, m, hs, as)]_vars

\* C4 witness: the 404 was answered while the league named holds a played
\* match and another league exists.
C4_Witness ==
    /\ resp.op = "update_result" /\ resp.status = 404
    /\ LeagueExists(resp.league)
    /\ SomePlayed(MOCK_MATCHES[resp.league])
    /\ Len(MOCK_LEAGUES) >= 2

\* C5: a generate_schedule step with rounds < 1 on a league of at least two
\* teams is rejected (a 4xx answer) and replaces no match list.
C5_RoundsBelowOneRejected ==
    [][resp'.op = "generate_schedule" =>
        \/ resp'.status \in {400, 422} /\ MOCK_MATCHES' = MOCK_MATCHES
        \/ \A r \in RoundInputs, s \in StartInputs, d \in DayInputs, now \in Clock :
              ~(/\ r < 1
                /\ LeagueExists(resp'.league)
                /\ Len(MOCK_LEAGUES[resp'.league].teams) >= 2
                /\ generate_schedule(resp'.league, r, s, d, now))]_vars

\* The shape C6 gives a schedule of R rounds over the roster `teams`, starting
\* at `start` with `interval` days between matches.
C6_Shape(teams, R, start, interval, body) ==
    LET N == Len(teams)
        P == N \div 2
    IN /\ Len(body) = R * P
       /\ \A r \in 1..R, j \in 0..(P - 1) :
            LET k == (r - 1) * P + j
                m == body[k + 1]
            IN /\ m.round = r
               /\ m.home_team_id = teams[2 * j + 1].id
               /\ m.away_team_id = teams[2 * j + 2].id
               /\ m.home_team_id # m.away_team_id
               /\ IsNone(m.home_score) /\ IsNone(m.away_score)
               /\ m.scheduled_at = start + k * interval
       /\ {body[k].round : k \in DOMAIN body} = 1..R
       /\ \A k \in 1..(Len(body) - 1) : body[k].round <= body[k + 1].round
       /\ N % 2 = 1 =>
            \A k \in DOMAIN body :
                teams[N].id \notin {body[k].home_team_id, body[k].away_team_id}

\* C6: a successful generate_schedule step with rounds R >= 1 on a roster of
\* N >= 2 teams returns R * floor(N/2) matches; the match at 0-indexed position
\* k = (r-1)*floor(N/2) + j has round r, home roster[2j], away roster[2j+1],
\* no scores and time start + k * interval; rounds run 1..R without going
\* down, and with N odd the last roster team is in no match.
C6_ScheduleShape ==
    [][(resp'.op = "generate_schedule" /\ resp'.status = 200) =>
        \A r \in RoundInputs, s \in StartInputs, d \in DayInputs, now \in Clock :
            (r >= 1 /\ generate_schedule(resp'.league, r, s, d, now))
            => C6_Shape(MOCK_LEAGUES[resp'.league].teams, r, StartTime(s, now), d,
                        resp'.body)]_vars

\* C6 witness: two rounds were generated over an odd roster of three.
C6_Witness ==
    /\ resp.op = "generate_schedule" /\ resp.status = 200
    /\ Len(MOCK_LEAGUES[resp.league].teams) = 3
    /\ Len(resp.body) = 2
    /\ resp.body[2].round = 2

ZeroRow(row) ==
    /\ row.played = 0 /\ row.wins = 0 /\ row.losses = 0
    /\ row.points_for = 0 /\ row.points_against = 0

\* C7: after a successful generate_schedule step the league's stored list is
\* the list returned, shares no match with the list stored before, has every
\* score unset, and a standings query answers one all-zero row per roster team.
C7_ScheduleReplaced ==
    [][(resp'.op = "generate_schedule" /\ resp'.status = 200) =>
        \A l \in DOMAIN MOCK_LEAGUES : l = resp'.league =>
        LET table == Computed(l, MOCK_LEAGUES'[l].teams, MOCK_MATCHES'[l])
        IN /\ MOCK_MATCHES'[l] = resp'.body
           /\ IdsOf(MOCK_MATCHES'[l]) \cap IdsOf(MOCK_MATCHES[l]) = {}
           /\ \A i \in DOMAIN MOCK_MATCHES'[l] :
                /\ IsNone(MOCK_MATCHES'[l][i].home_score)
                /\ IsNone(MOCK_MATCHES'[l][i].away_score)
           /\ table.status = 200
           /\ Len(table.body) = Len(MOCK_LEAGUES'[l].teams)
           /\ \A i \in DOMAIN table.body :
                /\ ZeroRow(table.body[i])
                /\ table.body[i].team_id = MOCK_LEAGUES'[l].teams[i].id]_vars

\* C7 witness: the only league there is holds a freshly generated schedule
\* whose first identity is not the first ever handed out, so an earlier
\* schedule of this league was replaced.
C7_Witness ==
    /\ resp.op = "generate_schedule" /\ resp.status = 200
    /\ Len(MOCK_LEAGUES) = 1
    /\ resp.body # <<>>
    /\ resp.body[1].id > 1
    /\ MOCK_MATCHES[resp.league] = resp.body

RECURSIVE Total(_, _)
Total(f, S) ==
    IF S = {} THEN 0
    ELSE LET i == CHOOSE i \in S : TRUE IN f[i] + Total(f, S \ {i})

BothScoresSet(m) == m.home_score # None /\ m.away_score # None

\* the positions of the scored matches team T is in
PlayedBy(T, ms) ==
    {i \in DOMAIN ms : BothScoresSet(ms[i]) /\ T \in {ms[i].home_team_id, ms[i].away_team_id}}

OwnScore(T, m) ==
    IF m.home_team_id = T THEN m.home_score[1] ELSE m.away_score[1]

OppScore(T, m) ==
    IF m.home_team_id = T THEN m.away_score[1] ELSE m.home_score[1]

\* C8: with every match on roster teams, standings answers one row per roster
\* team, and for each team T: played counts the scored matches T is in, wins /
\* losses those where T's score is strictly greater / smaller, points_for /
\* points_against sum T's / the opponent's scores over them; an unscored match
\* counts nowhere and a draw only in played and points.
C8_StandingsCounts ==
    (/\ resp.op = "standings" /\ resp.status = 200
     /\ \A i \in DOMAIN MOCK_MATCHES[resp.league] :
            {MOCK_MATCHES[resp.league][i].home_team_id,
             MOCK_MATCHES[resp.league][i].away_team_id} \subseteq RosterIds(resp.league))
    => LET ms == MOCK_MATCHES[resp.league]
           teams == MOCK_LEAGUES[resp.league].teams
       IN /\ Len(resp.body) = Len(teams)
          /\ \A t \in DOMAIN teams :
               \E i \in DOMAIN resp.body :
                 LET row == resp.body[i]
                     T == teams[t].id
                     mine == PlayedBy(T, ms)
                     won == {k \in mine : OwnScore(T, ms[k]) > OppScore(T, ms[k])}
                     lost == {k \in mine : OwnScore(T, ms[k]) < OppScore(T, ms[k])}
                     drawn == {k \in mine : OwnScore(T, ms[k]) = OppScore(T, ms[k])}
                 IN /\ row.team_id = T
                    /\ row.played = Cardinality(mine)
                    /\ row.wins = Cardinality(won)
                    /\ row.losses = Cardinality(lost)
                    /\ row.points_for = Total([k \in mine |-> OwnScore(T, ms[k])], mine)
                    /\ row.points_against = Total([k \in mine |-> OppScore(T, ms[k])], mine)
                    /\ row.played = row.wins + row.losses + Cardinality(drawn)

\* C8 witness: a table with a team that played twice, won once and drew once,
\* while another match is still unscored or another team has not played.
C8_Witness ==
    /\ resp.op = "standings" /\ resp.status = 200
    /\ \E i \in DOMAIN resp.body :
         /\ resp.body[i].played = 2
         /\ resp.body[i].wins = 1
         /\ resp.body[i].losses = 0
         /\ resp.body[i].points_for > 0

RosterPos(l, T) ==
    CHOOSE i \in DOMAIN MOCK_LEAGUES[l].teams : MOCK_LEAGUES[l].teams[i].id = T

\* C9: the table is ordered by wins descending, then by points_for -
\* points_against descending; rows equal in both stand in roster order, so
\* with no scored match the rows are in roster order.
C9_StandingsOrder ==
    (resp.op = "standings" /\ resp.status = 200)
    => LET l == resp.league
           body == resp.body
           teams == MOCK_LEAGUES[l].teams
       IN /\ {body[i].team_id : i \in DOMAIN body} = RosterIds(l)
          /\ \A i, j \in DOMAIN body :
               i < j =>
                 LET a == body[i]
                     b == body[j]
                     da == a.points_for - a.points_against
                     db == b.points_for - b.points_against
                 IN \/ a.wins > b.wins
                    \/ a.wins = b.wins /\ da > db
                    \/ /\ a.wins = b.wins /\ da = db
                       /\ RosterPos(l, a.team_id) < RosterPos(l, b.team_id)
          /\ ~SomePlayed(MOCK_MATCHES[l]) =>
               /\ Len(body) = Len(teams)
               /\ \A i \in DOMAIN body : body[i].team_id = teams[i].id

\* C9 witness: a table of at least three rows led by the second roster team,
\* with two neighbouring rows tied on wins and differential.
C9_Witness ==
    /\ resp.op = "standings" /\ resp.status = 200
    /\ Len(resp.body) >= 3
    /\ resp.body[1].team_id = MOCK_LEAGUES[resp.league].teams[2].id
    /\ \E i \in 1..(Len(resp.body) - 1) :
         /\ resp.body[i].wins = resp.body[i + 1].wins
         /\ Diff(resp.body[i]) = Diff(resp.body[i + 1])

MatchWithId(matches, match_id) ==
    matches[CHOOSE i \in DOMAIN matches : matches[i].id = match_id]

\* C10: once both concurrent writers on one league have returned, no update is
\* lost: two successful update_result calls on different matches both show in
\* the stored list, and an update_result that raced a successful
\* generate_schedule leaves the list one of the two serial orders leaves.
C10_NoLostUpdate ==
    (pc[1] = "done" /\ pc[2] = "done" /\ req[1].league = req[2].league) =>
      /\ (/\ req[1].op = "update_result" /\ req[2].op = "update_result"
          /\ req[1].status = 200 /\ req[2].status = 200
          /\ req[1].match_id # req[2].match_id)
         => \A t \in Threads :
              LET m == MatchWithId(MOCK_MATCHES[req[t].league], req[t].match_id)
              IN /\ m.home_score = Some(req[t].home_score)
                 /\ m.away_score = Some(req[t].away_score)
      /\ \A t, u \in Threads :
           (/\ req[t].op = "update_result"
            /\ req[u].op = "generate_schedule" /\ req[u].status = 200)
           => LET generated == req[u].body
                  thenUpdated == [i \in DOMAIN generated |->
                      IF generated[i].id = req[t].match_id
                      THEN [generated[i] EXCEPT
                              !.home_score = Some(req[t].home_score),
                              !.away_score = Some(req[t].away_score)]
                      ELSE generated[i]]
              IN MOCK_MATCHES[req[u].league] \in {generated, thenUpdated}
====
